---- MODULE Spec2Model ----
(***************************************************************************)
(* Model of the stock monitor: the DuckDB snapshot store                   *)
(* (utils/data_storage.py, class StockDataStorage) and the poll loop       *)
(* (stock_monitor.py, main).                                               *)
(*                                                                         *)
(* Units.  A price is an integer number of cents (DECIMAL(10,2)), a        *)
(* percentage an integer number of hundredths of a percent (DECIMAL(5,2)). *)
(* A timestamp is a tick 1..MaxTime; DayLen ticks make one calendar date.  *)
(*                                                                         *)
(* A DataFrame is a sequence of rows; a cell of a price or percentage      *)
(* column is one of                                                        *)
(*   [k |-> "str", pre, num, suf]  a numeric string, e.g. "$100.00", "5%"  *)
(*   [k |-> "text"]                a non-numeric string, the 'N/A' filler  *)
(*   [k |-> "float", num]          an already-numeric value                *)
(*   [k |-> "none"]                None / SQL NULL                          *)
(*   [k |-> "nan"]                 the float NaN                            *)
(***************************************************************************)
EXTENDS Integers, Sequences, FiniteSets, TLC

VARIABLES
    store,            \* the rows of table stock_snapshots
    call,             \* the StockDataStorage method a caller ran last
    ret,              \* what that call returned (for save: what happened inside it)
    pc,               \* where main is
    now,              \* datetime.now(), in ticks
    one_time,         \* main's argument
    valid_symbols,    \* main: the symbols that validated, in config order
    previous_data,    \* main: the frame read at the top of the cycle
    fetched,          \* main: what get_stock_data returned, per symbol so far
    current_data,     \* main: the frame that is saved and compared
    comparison_data,  \* main: what compare_with_previous returned
    report,           \* main: what generate_report returned
    symbols,          \* get_stock_status: its argument
    alpha_vantage_key, \* get_stock_status: whether its key argument is set
    readings,         \* get_stock_status: what the clients answered, per symbol so far
    results           \* get_stock_status: the rows appended so far

apivars == <<store, call, ret>>
mainvars == <<pc, now, one_time, valid_symbols, previous_data, fetched,
              current_data, comparison_data, report>>
statusvars == <<symbols, alpha_vantage_key, readings, results>>
vars == <<store, call, ret, pc, now, one_time, valid_symbols, previous_data,
          fetched, current_data, comparison_data, report, symbols, alpha_vantage_key,
          readings, results>>

(***************************************************************************)
(* Bounds of the model.                                                    *)
(***************************************************************************)
MaxTime == 3
DayLen == 3
MaxRows == 2

Times == 1..MaxTime
Date(ts) == (ts - 1) \div DayLen
\* the dates that are asked for: those of the ticks, and the day after
Dates == {Date(ts) : ts \in Times} \cup {Date(MaxTime) + 1}

Symbols == {"AAA", "BBB"}
Prices == {10000, 10500}
PrevCloses == {10000}
\* who supplied a reading: the (company, sources) pair of a row
Yahoo == [company |-> "Acme Corp", sources |-> "Yahoo Finance"]
Both == [company |-> "Acme Corp", sources |-> "Yahoo Finance + Alpha Vantage"]
Alpha == [company |-> "AAA", sources |-> "Alpha Vantage"]
Origins == {Yahoo}

(***************************************************************************)
(* Cells and their conversions.                                            *)
(***************************************************************************)
None == [k |-> "none"]
Text == [k |-> "text"]
Flt(n) == [k |-> "float", num |-> n]
\* float('nan'), and the strings f"${x:.2f}" and f"{x:.2f}%" make of it
NaN == [k |-> "nan"]
NanStr(pre, suf) == [k |-> "nanstr", pre |-> pre, suf |-> suf]
\* f"${x:.2f}" and CONCAT('$', x)
Dollar(n) == [k |-> "str", pre |-> "$", num |-> n, suf |-> ""]
\* f"{x:.2f}%" and CONCAT(x, '%')
Percent(n) == [k |-> "str", pre |-> "", num |-> n, suf |-> "%"]
\* CONCAT('$', NULL): the decoration alone
Bare(pre, suf) == [k |-> "bare", pre |-> pre, suf |-> suf]
\* CONCAT('$', AVG(...)): the mean sum / n, kept exact
DollarMean(sum, n) == [k |-> "mean", pre |-> "$", sum |-> sum, n |-> n]

\* the outcome of a conversion
Val(n) == [r |-> "val", v |-> n]
Raise == [r |-> "raise"]
NoVal == [r |-> "none"]
NanVal == [r |-> "nan"]

\* df[col].str.replace('$', '').astype(float): the '$' is stripped, anything
\* else that is left around the digits makes float() raise ValueError
StrPriceToFloat(c) ==
    IF c.k = "str" /\ c.suf = "" THEN Val(c.num) ELSE Raise

\* df[col].str.replace('%', '').astype(float)
StrPercentToFloat(c) ==
    IF c.k = "str" /\ c.pre = "" THEN Val(c.num) ELSE Raise

\* calculate_daily_change: ((current - prev_close) / prev_close) * 100, in
\* hundredths of a percent
calculate_daily_change(current_price, prev_close) ==
    ((current_price - prev_close) * 10000) \div prev_close

(***************************************************************************)
(* The table stock_snapshots and the DataFrames handed to save.            *)
(***************************************************************************)
Key(r) == <<r.timestamp, r.symbol>>

\* mutant: the table is created without its PRIMARY KEY clause
PrimaryKeyOk_NoConstraint(st, rows) == TRUE

\* PRIMARY KEY (timestamp, symbol): the rows, in insertion order `rows`,
\* can all be inserted into table `st`
PrimaryKeyOk(st, rows) ==
    /\ \A i \in 1..Len(rows) : \A r \in st : Key(r) # Key(rows[i])
    /\ \A i, j \in 1..Len(rows) : i # j => Key(rows[i]) # Key(rows[j])

\* a row as get_stock_status builds it from a successful reading
GoodRow(s, o, p, prev_close) ==
    [ Symbol |-> s, Company |-> o.company,
      Current_Price |-> Dollar(p), Previous_Close |-> Dollar(prev_close),
      Daily_Change |-> Percent(calculate_daily_change(p, prev_close)),
      Sources |-> o.sources ]

\* the row get_stock_status emits when no source answered
NARow(s) ==
    [ Symbol |-> s, Company |-> "N/A",
      Current_Price |-> Text, Previous_Close |-> Text,
      Daily_Change |-> Text, Sources |-> "N/A" ]

DfRows ==
    {GoodRow(s, o, p, c) : s \in Symbols, o \in Origins, p \in Prices, c \in PrevCloses}
        \cup {NARow(s) : s \in Symbols}

\* the DataFrames save is called with: one or two rows
DataFrames ==
    {<<a>> : a \in DfRows} \cup {<<a, b>> : a \in DfRows, b \in DfRows}

WellFormed(row) ==
    /\ StrPriceToFloat(row.Current_Price).r = "val"
    /\ StrPriceToFloat(row.Previous_Close).r = "val"
    /\ StrPercentToFloat(row.Daily_Change).r = "val"

\* the row the INSERT ... SELECT writes for one DataFrame row
SnapshotRow(row, ts) ==
    [ timestamp |-> ts, symbol |-> row.Symbol, company |-> row.Company,
      current_price |-> StrPriceToFloat(row.Current_Price).v,
      previous_close |-> StrPriceToFloat(row.Previous_Close).v,
      daily_change |-> StrPercentToFloat(row.Daily_Change).v,
      sources |-> row.Sources ]

Range(f) == {f[i] : i \in DOMAIN f}

\* mutant: INSERT OR REPLACE, a row whose key is already there is overwritten
InsertRows_OrReplace(st, rows) ==
    [ ok |-> TRUE,
      store |-> {r \in st : \A i \in 1..Len(rows) : Key(r) # Key(rows[i])} \cup Range(rows) ]

\* the INSERT of save_stock_data run against table `st`: the statement is
\* atomic, a key that is already there rejects all of it
InsertRows(st, rows) ==
    IF PrimaryKeyOk(st, rows)
    THEN [ok |-> TRUE, store |-> st \cup Range(rows)]
    ELSE [ok |-> FALSE, store |-> st]

\* save_stock_data(df, timestamp): the three astype(float) conversions run
\* over the whole column first, then the one INSERT; whatever is raised is
\* logged by the except clause and the method returns normally
save_stock_data(st, df, ts, available) ==
    LET rows   == [i \in 1..Len(df) |-> SnapshotRow(df[i], ts)]
        parses == \A i \in 1..Len(df) : WellFormed(df[i])
        ins    == InsertRows(st, rows)
    IN  IF ~parses THEN [store |-> st, error |-> "parse", raised |-> FALSE]
        ELSE IF ~available THEN [store |-> st, error |-> "unavailable", raised |-> FALSE]
        ELSE IF ~ins.ok THEN [store |-> st, error |-> "constraint", raised |-> FALSE]
        ELSE [store |-> ins.store, error |-> "none", raised |-> FALSE]

(***************************************************************************)
(* Reading the table.                                                      *)
(***************************************************************************)
\* mutant: SELECT MIN(timestamp)
MaxTimestamp_Min(st) ==
    IF st = {} THEN 0
    ELSE CHOOSE t \in {r.timestamp : r \in st} : \A r \in st : t <= r.timestamp

\* SELECT MAX(timestamp) FROM stock_snapshots; NULL on an empty table
MaxTimestamp(st) ==
    IF st = {} THEN 0
    ELSE CHOOSE t \in {r.timestamp : r \in st} : \A r \in st : r.timestamp <= t

\* the SELECT list of get_latest_data: prices and percentages leave as text
LatestRow(r) ==
    [ timestamp |-> r.timestamp, Symbol |-> r.symbol, Company |-> r.company,
      Current_Price |-> Dollar(r.current_price),
      Previous_Close |-> Dollar(r.previous_close),
      Daily_Change |-> Percent(r.daily_change),
      Sources |-> r.sources ]

\* WHERE timestamp = (SELECT max_ts FROM latest_timestamp)
LatestRows(st) == {r \in st : r.timestamp = MaxTimestamp(st)}

\* the orders in which a SELECT without ORDER BY may deliver a set of rows
Orderings(S) ==
    {q \in [1..Cardinality(S) -> S] : \A i, j \in DOMAIN q : i # j => q[i] # q[j]}

\* get_latest_data(): the DataFrames it may return
get_latest_data(st) ==
    {[i \in DOMAIN q |-> LatestRow(q[i])] : q \in Orderings(LatestRows(st))}


(***************************************************************************)
(* The view daily_summary and get_daily_summary.                           *)
(***************************************************************************)
RECURSIVE Sum(_, _)
\* SUM(col) over a set of rows
Sum(S, col) ==
    IF S = {} THEN 0
    ELSE LET r == CHOOSE x \in S : TRUE IN r[col] + Sum(S \ {r}, col)

Max(S) == CHOOSE x \in S : \A y \in S : y <= x
Min(S) == CHOOSE x \in S : \A y \in S : x <= y

\* PARTITION BY CAST(timestamp AS DATE), symbol
Partition(st, r) == {x \in st : Date(x.timestamp) = Date(r.timestamp) /\ x.symbol = r.symbol}
\* ROW_NUMBER() ... ORDER BY timestamp = 1, and ORDER BY timestamp DESC = 1
RnAsc1(st, r) == r = (CHOOSE x \in Partition(st, r) : \A y \in Partition(st, r) : x.timestamp <= y.timestamp)
RnDesc1(st, r) == r = (CHOOSE x \in Partition(st, r) : \A y \in Partition(st, r) : x.timestamp >= y.timestamp)

\* GROUP BY date, symbol, company, sources
GroupOf(st, r) ==
    {x \in Partition(st, r) : x.company = r.company /\ x.sources = r.sources}

\* MAX(CASE WHEN pick THEN col END) over a group of which `picked` are the
\* rows that pass the WHEN: NULL when no row of the group is picked
MaxCase(picked, col) ==
    IF picked # {} THEN Val(Max({x[col] : x \in picked})) ELSE NoVal

\* one row of the view: the aggregates of the group of r
SummaryOfGroup(st, r) ==
    LET G == GroupOf(st, r)
        first == {x \in G : RnAsc1(st, x)}
        last == {x \in G : RnDesc1(st, x)}
    IN  [ date |-> Date(r.timestamp), symbol |-> r.symbol, company |-> r.company,
          opening_price |-> MaxCase(first, "current_price"),
          closing_price |-> MaxCase(last, "current_price"),
          high_price |-> Max({x.current_price : x \in G}),
          low_price |-> Min({x.current_price : x \in G}),
          average_sum |-> Sum(G, "current_price"),
          average_n |-> Cardinality(G),
          opening_change |-> MaxCase(first, "daily_change"),
          closing_change |-> MaxCase(last, "daily_change"),
          sources |-> r.sources ]

daily_summary(st) == {SummaryOfGroup(st, r) : r \in st}

\* CONCAT('$', x) and CONCAT(x, '%') of a value that may be NULL
ConcatDollar(x) == IF x.r = "val" THEN Dollar(x.v) ELSE Bare("$", "")
ConcatPercent(x) == IF x.r = "val" THEN Percent(x.v) ELSE Bare("", "%")

\* the SELECT list of get_daily_summary
SummaryRow(g) ==
    [ Symbol |-> g.symbol, Company |-> g.company,
      Opening_Price |-> ConcatDollar(g.opening_price),
      Closing_Price |-> ConcatDollar(g.closing_price),
      High_Price |-> Dollar(g.high_price),
      Low_Price |-> Dollar(g.low_price),
      Average_Price |-> DollarMean(g.average_sum, g.average_n),
      Opening_Change |-> ConcatPercent(g.opening_change),
      Closing_Change |-> ConcatPercent(g.closing_change),
      Sources |-> g.sources ]

\* get_daily_summary(date): FROM daily_summary WHERE date = ?
get_daily_summary(st, date) ==
    {[i \in DOMAIN q |-> SummaryRow(q[i])] :
        q \in Orderings({g \in daily_summary(st) : g.date = date})}

(***************************************************************************)
(* compare_with_previous.                                                  *)
(***************************************************************************)
\* safe_price_convert: a float passes, a string has '$' and ',' removed and
\* goes through float(), anything else gives None
safe_price_convert(c) ==
    IF c.k = "float" THEN Val(c.num)
    ELSE IF c.k = "nan" THEN NanVal
    ELSE IF c.k = "str" THEN (IF c.suf = "" THEN Val(c.num) ELSE Raise)
    ELSE IF c.k = "nanstr" THEN (IF c.suf = "" THEN NanVal ELSE Raise)
    ELSE IF c.k \in {"text", "bare", "mean"} THEN Raise
    ELSE NoVal

\* safe_percent_convert: the same with '%' and ','
safe_percent_convert(c) ==
    IF c.k = "float" THEN Val(c.num)
    ELSE IF c.k = "nan" THEN NanVal
    ELSE IF c.k = "str" THEN (IF c.pre = "" THEN Val(c.num) ELSE Raise)
    ELSE IF c.k = "nanstr" THEN (IF c.pre = "" THEN NanVal ELSE Raise)
    ELSE IF c.k \in {"text", "bare", "mean"} THEN Raise
    ELSE NoVal

\* the four comparison columns as line 216-219 initialise them
Undefined ==
    [ Previous_Price |-> None, Price_Change |-> None,
      Previous_Daily_Change |-> None, Change_in_Daily_Change |-> None ]

\* the columns of a DataFrame row that compare and analyze read
Columns(row) ==
    [ Symbol |-> row.Symbol, Company |-> row.Company,
      Current_Price |-> row.Current_Price, Daily_Change |-> row.Daily_Change ]

\* a - b, f"${x:.2f}" and f"{x:.2f}%" of floats that may be NaN
Minus(a, b) == IF a.r = "nan" \/ b.r = "nan" THEN NanVal ELSE Val(a.v - b.v)
DollarOf(x) == IF x.r = "nan" THEN NanStr("$", "") ELSE Dollar(x.v)
PercentOf(x) == IF x.r = "nan" THEN NanStr("", "%") ELSE Percent(x.v)

\* mutant: the price columns are written before the percentages are
\* converted, so a percentage that fails leaves half of the columns
CompareRow_PricesFirst(previous_df, row) ==
    LET prev_row == SelectSeq(previous_df, LAMBDA p : p.Symbol = row.Symbol)
    IN  IF prev_row = <<>> THEN Undefined
        ELSE
          LET prev_price == safe_price_convert(prev_row[1].Current_Price)
              prev_daily_change == safe_percent_convert(prev_row[1].Daily_Change)
              current_price == safe_price_convert(row.Current_Price)
              current_daily_change == safe_percent_convert(row.Daily_Change)
              prices == {prev_price, current_price}
              changes == {prev_daily_change, current_daily_change}
          IN  IF \E v \in prices : v.r \in {"raise", "none"} THEN Undefined
              ELSE IF \E v \in changes : v.r \in {"raise", "none"}
              THEN [ Previous_Price |-> DollarOf(prev_price),
                     Price_Change |-> DollarOf(Minus(current_price, prev_price)),
                     Previous_Daily_Change |-> None,
                     Change_in_Daily_Change |-> None ]
              ELSE [ Previous_Price |-> DollarOf(prev_price),
                     Price_Change |-> DollarOf(Minus(current_price, prev_price)),
                     Previous_Daily_Change |-> PercentOf(prev_daily_change),
                     Change_in_Daily_Change |->
                         PercentOf(Minus(current_daily_change, prev_daily_change)) ]

\* the body of the loop of compare_with_previous for one row: the four
\* comparison columns it leaves in that row
CompareRow(previous_df, row) ==
    LET prev_row == SelectSeq(previous_df, LAMBDA p : p.Symbol = row.Symbol)
    IN  IF prev_row = <<>> THEN Undefined
        ELSE
          LET prev_price == safe_price_convert(prev_row[1].Current_Price)
              prev_daily_change == safe_percent_convert(prev_row[1].Daily_Change)
              current_price == safe_price_convert(row.Current_Price)
              current_daily_change == safe_percent_convert(row.Daily_Change)
              all == {prev_price, current_price, prev_daily_change, current_daily_change}
          IN  IF \E v \in all : v.r = "raise" THEN Undefined     \* except: continue
              ELSE IF \E v \in all : v.r = "none" THEN Undefined \* "Could not convert"
              ELSE [ Previous_Price |-> DollarOf(prev_price),
                     Price_Change |-> DollarOf(Minus(current_price, prev_price)),
                     Previous_Daily_Change |-> PercentOf(prev_daily_change),
                     Change_in_Daily_Change |->
                         PercentOf(Minus(current_daily_change, prev_daily_change)) ]

\* mutant: one try around the whole loop, a row that raises leaves every row
\* of the call without its comparison columns
CompareWith_OneTry(previous_df, current_df) ==
    [i \in 1..Len(current_df) |->
        [ row |-> Columns(current_df[i]),
          cmp |-> IF \E j \in 1..Len(current_df) :
                        \/ safe_price_convert(current_df[j].Current_Price).r = "raise"
                        \/ safe_percent_convert(current_df[j].Daily_Change).r = "raise"
                  THEN Undefined
                  ELSE CompareRow(previous_df, current_df[i]) ]]

\* compare_with_previous(current_df) once get_latest_data has returned
\* previous_df
CompareWith(previous_df, current_df) ==
    [i \in 1..Len(current_df) |->
        [ row |-> Columns(current_df[i]), cmp |-> CompareRow(previous_df, current_df[i]) ]]

\* compare_with_previous(current_df): the values it may return; None when
\* get_latest_data returned None
compare_with_previous(st, current_df, available) ==
    IF ~available THEN {None}
    ELSE {[df |-> CompareWith(previous_df, current_df)] : previous_df \in get_latest_data(st)}

(***************************************************************************)
(* analyze_price_changes and generate_report.                              *)
(***************************************************************************)
\* StockDataStorage.__init__: price_change_threshold, in percent
price_change_threshold == 5

Abs(x) == IF x < 0 THEN -x ELSE x

\* float(cell.replace('$', '')): a cell that is no string has no replace()
FloatOfPrice(c) ==
    IF c.k = "str" /\ c.suf = "" THEN Val(c.num)
    ELSE IF c.k = "nanstr" /\ c.suf = "" THEN NanVal
    ELSE Raise
\* float(cell.replace('%', ''))
FloatOfPercent(c) ==
    IF c.k = "str" /\ c.pre = "" THEN Val(c.num)
    ELSE IF c.k = "nanstr" /\ c.pre = "" THEN NanVal
    ELSE Raise

\* pd.isna(cell)
IsNa(c) == c.k \in {"none", "nan"}

\* abs(price_change_pct) >= threshold, with price_change_pct =
\* ((current_price - previous_price) / previous_price) * 100
SignificantChange(current_price, previous_price, threshold) ==
    Abs(current_price - previous_price) * 100 >= threshold * Abs(previous_price)

\* price_change_pct > 0
Positive(current_price, previous_price) ==
    \/ current_price > previous_price /\ previous_price > 0
    \/ current_price < previous_price /\ previous_price < 0

\* the body of the loop of analyze_price_changes for one record: "skip" for
\* the continue, "raise" when an exception leaves the loop, else the alerts
\* the record appends
AnalyzeRow(rec, threshold) ==
    IF IsNa(rec.cmp.Previous_Price) \/ IsNa(rec.row.Current_Price)
    THEN [out |-> "skip"]
    ELSE
      LET current_price == FloatOfPrice(rec.row.Current_Price)
          previous_price == FloatOfPrice(rec.cmp.Previous_Price)
          \* a NaN operand makes price_change_pct NaN, which no test accepts
          nan == current_price.r = "nan" \/ previous_price.r = "nan"
      IN  IF current_price.r = "raise" \/ previous_price.r = "raise" THEN [out |-> "raise"]
          ELSE IF previous_price.r = "val" /\ previous_price.v = 0
          THEN [out |-> "raise"]   \* ZeroDivisionError
          ELSE
            LET sig ==
                  IF nan THEN <<>>
                  ELSE IF SignificantChange(current_price.v, previous_price.v, threshold)
                  THEN << [ symbol |-> rec.row.Symbol, company |-> rec.row.Company,
                            current_price |-> current_price.v,
                            previous_price |-> previous_price.v,
                            \* change_pct = change_num / change_den
                            change_num |-> (current_price.v - previous_price.v) * 100,
                            change_den |-> previous_price.v,
                            direction |-> IF Positive(current_price.v, previous_price.v)
                                          THEN "increase" ELSE "decrease" ] >>
                  ELSE <<>>
                diff == FloatOfPercent(rec.cmp.Change_in_Daily_Change)
                cur_dc == FloatOfPercent(rec.row.Daily_Change)
                prev_dc == FloatOfPercent(rec.cmp.Previous_Daily_Change)
            IN  IF IsNa(rec.cmp.Change_in_Daily_Change)
                THEN [out |-> "ok", sig |-> sig, daily |-> <<>>]
                ELSE IF diff.r = "raise" THEN [out |-> "raise"]
                ELSE IF diff.r = "nan" THEN [out |-> "ok", sig |-> sig, daily |-> <<>>]
                ELSE IF Abs(diff.v) < threshold * 100
                THEN [out |-> "ok", sig |-> sig, daily |-> <<>>]
                ELSE IF cur_dc.r # "val" \/ prev_dc.r # "val" THEN [out |-> "raise"]
                ELSE [ out |-> "ok", sig |-> sig,
                       daily |-> << [ symbol |-> rec.row.Symbol,
                                      company |-> rec.row.Company,
                                      current_daily_change |-> cur_dc.v,
                                      previous_daily_change |-> prev_dc.v,
                                      change_diff |-> diff.v ] >> ]

\* the alerts dict before the loop
NoAlerts(comparison_df) ==
    [ significant_changes |-> <<>>, daily_change_alerts |-> <<>>,
      summary |-> [ total_symbols |-> Len(comparison_df), significant_changes |-> 0,
                    positive_changes |-> 0, negative_changes |-> 0 ] ]

\* mutant: a daily-change alert is counted as a significant, positive change
AddAlerts_CountDaily(alerts, o) ==
    [ significant_changes |-> alerts.significant_changes \o o.sig,
      daily_change_alerts |-> alerts.daily_change_alerts \o o.daily,
      summary |->
        [ total_symbols |-> alerts.summary.total_symbols,
          significant_changes |-> alerts.summary.significant_changes + Len(o.sig) + Len(o.daily),
          positive_changes |-> alerts.summary.positive_changes + Len(o.daily)
              + (IF o.sig # <<>> /\ o.sig[1].direction = "increase" THEN 1 ELSE 0),
          negative_changes |-> alerts.summary.negative_changes
              + (IF o.sig # <<>> /\ o.sig[1].direction # "increase" THEN 1 ELSE 0) ] ]

\* what one record adds to the alerts dict
AddAlerts(alerts, o) ==
    [ significant_changes |-> alerts.significant_changes \o o.sig,
      daily_change_alerts |-> alerts.daily_change_alerts \o o.daily,
      summary |->
        [ total_symbols |-> alerts.summary.total_symbols,
          significant_changes |-> alerts.summary.significant_changes + Len(o.sig),
          positive_changes |-> alerts.summary.positive_changes
              + (IF o.sig # <<>> /\ o.sig[1].direction = "increase" THEN 1 ELSE 0),
          negative_changes |-> alerts.summary.negative_changes
              + (IF o.sig # <<>> /\ o.sig[1].direction # "increase" THEN 1 ELSE 0) ] ]

RECURSIVE AnalyzeFrom(_, _, _, _)
\* the loop of analyze_price_changes from record i on; an exception anywhere
\* ends the call in the outer except clause, which returns None
AnalyzeFrom(comparison_df, i, alerts, threshold) ==
    IF i > Len(comparison_df) THEN alerts
    ELSE LET o == AnalyzeRow(comparison_df[i], threshold)
         IN  IF o.out = "raise" THEN None
             ELSE IF o.out = "skip" THEN AnalyzeFrom(comparison_df, i + 1, alerts, threshold)
             ELSE AnalyzeFrom(comparison_df, i + 1, AddAlerts(alerts, o), threshold)

analyze_price_changes(comparison_df, threshold) ==
    AnalyzeFrom(comparison_df, 1, NoAlerts(comparison_df), threshold)

\* `not alerts`: None is falsy, the alerts dict has three keys and is truthy
Falsy(alerts) == alerts = None

NoChangesReport == [text |-> "No significant changes detected."]

\* generate_report(comparison_df): the report, by its parts; a section is
\* rendered only when its list is not empty
generate_report(comparison_df, threshold) ==
    LET alerts == analyze_price_changes(comparison_df, threshold)
    IN  IF Falsy(alerts) THEN NoChangesReport
        ELSE [ text |-> "Price Movement Analysis Report",
               summary |-> alerts.summary,
               price_section |-> alerts.significant_changes,
               daily_section |-> alerts.daily_change_alerts ]

(***************************************************************************)
(* The calls of StockDataStorage, as actions.                              *)
(***************************************************************************)
\* the ticks before main starts, and the tick it starts at
PastTimes == 1..(MaxTime - 1)
StartTime == MaxTime

Init ==
    /\ store = {}
    /\ call = "init"
    /\ ret = None
    /\ pc = "start"
    /\ now = StartTime
    /\ one_time = FALSE
    /\ valid_symbols = <<>>
    /\ previous_data = None
    /\ fetched = <<>>
    /\ current_data = None
    /\ comparison_data = None
    /\ report = None
    /\ symbols = <<>>
    /\ alpha_vantage_key = FALSE
    /\ readings = <<>>
    /\ results = <<>>

\* save_stock_data(df, ts) called with a frame of `frames` and a timestamp of
\* `times`, on a table that keeps at most `cap` rows in the model.  ret
\* records what happened inside the call: the error the except clause logged,
\* whether the call raised, how many rows of df were well-formed, whether the
\* store would have taken those, and how many rows the call added.
\* With the storage unavailable the outcome does not depend on ts.
SaveFrom(frames, times, cap) ==
    \E df \in frames :
        LET good == SelectSeq(df, WellFormed)
            grow(ts) == [i \in 1..Len(good) |-> SnapshotRow(good[i], ts)]
            Done(res, insertable) ==
                /\ Cardinality(res.store) <= cap
                /\ store' = res.store
                /\ call' = "save"
                /\ ret' = [ error |-> res.error, raised |-> res.raised,
                            wellformed |-> Len(good),
                            malformed |-> Len(df) - Len(good),
                            insertable |-> insertable,
                            inserted |-> Cardinality(res.store \ store) ]
                /\ UNCHANGED <<mainvars, statusvars>>
        IN  \/ \E ts \in times :
                 Done(save_stock_data(store, df, ts, TRUE), PrimaryKeyOk(store, grow(ts)))
            \/ Done(save_stock_data(store, df, Min(times), FALSE), FALSE)

SaveStockData ==
    /\ pc = "start"
    /\ SaveFrom(DataFrames, Times, MaxRows)

GetLatestData ==
    /\ pc = "start"
    /\ \E available \in BOOLEAN :
        /\ call' = "latest"
        /\ IF available
           THEN \E df \in get_latest_data(store) : ret' = [df |-> df]
           ELSE ret' = None
        /\ UNCHANGED <<store, mainvars, statusvars>>

GetDailySummary ==
    /\ pc = "start"
    /\ \E date \in Dates, available \in BOOLEAN :
        /\ call' = "summary"
        /\ IF available
           THEN \E df \in get_daily_summary(store, date) : ret' = [date |-> date, df |-> df]
           ELSE ret' = None
        /\ UNCHANGED <<store, mainvars, statusvars>>

\* compare_with_previous on the frame its callers pass: the one that
\* get_latest_data returned (app.py line 130, stock_monitor.py line 262)
CompareWithPrevious ==
    /\ pc = "start"
    /\ \E available \in BOOLEAN :
       \E current_df \in get_latest_data(store) :
       \E r \in compare_with_previous(store, current_df, available) :
        /\ call' = "compare"
        /\ ret' = r
        /\ UNCHANGED <<store, mainvars, statusvars>>

AnalyzePriceChanges ==
    /\ call = "compare" /\ ret # None
    /\ call' = "analyze"
    /\ ret' = [comparison |-> ret.df,
               alerts |-> analyze_price_changes(ret.df, price_change_threshold)]
    /\ UNCHANGED <<store, mainvars, statusvars>>

GenerateReport ==
    /\ call = "compare" /\ ret # None
    /\ call' = "report"
    /\ ret' = [comparison |-> ret.df,
               report |-> generate_report(ret.df, price_change_threshold)]
    /\ UNCHANGED <<store, mainvars, statusvars>>

Next ==
    \/ SaveStockData
    \/ GetLatestData
    \/ GetDailySummary
    \/ CompareWithPrevious
    \/ AnalyzePriceChanges
    \/ GenerateReport

\* the storage API under any sequence of calls
Spec == Init /\ [][Next]_vars

(***************************************************************************)
(* The daily summary of one symbol whose rows differ in company and        *)
(* sources, over the ticks of one date and the first tick of the next.     *)
(***************************************************************************)
SummaryPrices == {9800, 10000, 10500}
Unknown == [company |-> "Unknown", sources |-> "Yahoo Finance"]
SummaryFrames ==
    {<<GoodRow("AAA", o, p, c)>> :
        o \in {Yahoo, Both, Unknown}, p \in SummaryPrices, c \in PrevCloses}
SummaryTimes == 1..(DayLen + 1)

SaveForSummary ==
    /\ call \in {"init", "save"}
    /\ SaveFrom(SummaryFrames, SummaryTimes, DayLen)

SummaryOfDate ==
    /\ call \in {"init", "save"}
    /\ \E date \in {Date(ts) : ts \in SummaryTimes} :
       \E df \in get_daily_summary(store, date) :
        /\ call' = "summary"
        /\ ret' = [date |-> date, df |-> df]
        /\ UNCHANGED <<store, mainvars, statusvars>>

NextSummary ==
    \/ SaveForSummary
    \/ SummaryOfDate

SpecSummary == Init /\ [][NextSummary]_vars

(***************************************************************************)
(* compare, analyze and report over frames of any content: the table holds *)
(* one poll at tick 1, the current frame has string, 'N/A', numeric and    *)
(* missing cells.                                                          *)
(***************************************************************************)
QuoteFrames ==
    {<<GoodRow(s, Yahoo, p, c)>> : s \in Symbols, p \in {0, 10000}, c \in PrevCloses}

CurrentPriceCells ==
    {Dollar(9400), Dollar(10000), Dollar(10400), Dollar(10600), Text, Flt(10600), None, NaN}
CurrentChangeCells == {Percent(0), Percent(400), Percent(500), Percent(600), Text}

CurrentRows ==
    { [ Symbol |-> s, Company |-> Yahoo.company, Current_Price |-> p,
        Previous_Close |-> Dollar(c), Daily_Change |-> d, Sources |-> Yahoo.sources ] :
      s \in Symbols, p \in CurrentPriceCells, d \in CurrentChangeCells, c \in PrevCloses }

\* no row, one row, or one row per symbol
CurrentFrames ==
    {<<>>} \cup {<<a>> : a \in CurrentRows}
        \cup {q \in {<<a, b>> : a \in CurrentRows, b \in CurrentRows} : q[1].Symbol # q[2].Symbol}

SaveQuote ==
    /\ call \in {"init", "save"}
    /\ SaveFrom(QuoteFrames, {1}, Cardinality(Symbols))

CompareCurrent ==
    /\ call \in {"init", "save"}
    /\ \E available \in BOOLEAN :
       \E current_df \in CurrentFrames :
       \E r \in compare_with_previous(store, current_df, available) :
        /\ call' = "compare"
        /\ ret' = r
        /\ UNCHANGED <<store, mainvars, statusvars>>

NextAnalyze ==
    \/ SaveQuote
    \/ CompareCurrent
    \/ AnalyzePriceChanges
    \/ GenerateReport

SpecAnalyze == Init /\ [][NextAnalyze]_vars

(***************************************************************************)
(* main: the poll loop, on a database that earlier saves have filled.      *)
(***************************************************************************)
MaxCycles == 2

MainFrames == {<<GoodRow(s, Yahoo, p, c)>> : s \in Symbols, p \in Prices, c \in PrevCloses}

\* the lists validate_symbol can leave of the configured symbols
SymbolLists == {<<>>, <<"AAA">>, <<"BBB">>, <<"AAA", "BBB">>}

\* the database file before main runs: rows saved at earlier ticks
SaveEarlier ==
    /\ pc = "start"
    /\ SaveFrom(MainFrames, PastTimes, Cardinality(Symbols))

\* lines 206-238: the symbols are validated, main returns when none is
\* valid, else it constructs the storage and enters the loop
MainStart ==
    /\ pc = "start"
    /\ \E flag \in BOOLEAN, valid \in SymbolLists :
        /\ one_time' = flag
        /\ valid_symbols' = valid
        /\ pc' = IF valid = <<>> THEN "done" ELSE "top"
    /\ call' = "init"
    /\ ret' = None
    /\ UNCHANGED <<store, now, previous_data, fetched, current_data, comparison_data, report>>
    /\ UNCHANGED statusvars

\* line 243: previous_data = data_storage.get_latest_data()
MainGetPrevious ==
    /\ pc = "top"
    /\ \E available \in BOOLEAN :
       \E r \in IF available THEN {[df |-> df] : df \in get_latest_data(store)} ELSE {None} :
        /\ previous_data' = r
        /\ ret' = r
    /\ call' = "latest"
    /\ fetched' = <<>>
    /\ current_data' = None
    /\ comparison_data' = None
    /\ report' = None
    /\ pc' = "fetch"
    /\ UNCHANGED <<store, now, one_time, valid_symbols>>
    /\ UNCHANGED statusvars

\* get_stock_data(symbol): a one-row frame of what Yahoo Finance answered,
\* or None
get_stock_data(symbol) ==
    {None} \cup {[df |-> <<GoodRow(symbol, Yahoo, p, c)>>] : p \in Prices, c \in PrevCloses}

\* lines 246-253: one turn of the loop over valid_symbols; stock_data is
\* logged about and dropped (fetched keeps it for the claims)
MainFetch ==
    /\ pc = "fetch"
    /\ \E stock_data \in get_stock_data(valid_symbols[Len(fetched) + 1]) :
        fetched' = Append(fetched, stock_data)
    /\ pc' = IF Len(fetched) + 1 = Len(valid_symbols) THEN "save" ELSE "fetch"
    /\ UNCHANGED <<apivars, now, one_time, valid_symbols, previous_data,
                   current_data, comparison_data, report>>
    /\ UNCHANGED statusvars

\* lines 256-258: current_data = get_latest_data(), and when that is not
\* None, save_stock_data(current_data) with the timestamp datetime.now()
MainSave ==
    /\ pc = "save"
    /\ \/ /\ current_data' = None
          /\ call' = "latest"
          /\ ret' = None
          /\ pc' = "end"
          /\ UNCHANGED store
       \/ \E df \in get_latest_data(store), available \in BOOLEAN :
            LET res == save_stock_data(store, df, now, available)
                rows == [i \in 1..Len(df) |-> SnapshotRow(df[i], now)]
            IN  /\ current_data' = [df |-> df]
                /\ store' = res.store
                /\ call' = "save"
                /\ ret' = [ error |-> res.error, raised |-> res.raised,
                            wellformed |-> Len(SelectSeq(df, WellFormed)),
                            malformed |-> Len(df) - Len(SelectSeq(df, WellFormed)),
                            insertable |-> available /\ PrimaryKeyOk(store, rows),
                            inserted |-> Cardinality(res.store \ store) ]
                /\ pc' = IF previous_data # None THEN "compare" ELSE "end"
    /\ UNCHANGED <<now, one_time, valid_symbols, previous_data, fetched,
                   comparison_data, report>>
    /\ UNCHANGED statusvars

\* lines 262-266: compare_with_previous(current_data), and when that is not
\* None, generate_report and print; a print that raises leaves the try block
MainCompare ==
    /\ pc = "compare"
    /\ \E available \in BOOLEAN :
       \E r \in compare_with_previous(store, current_data.df, available) :
        /\ comparison_data' = r
        /\ IF r = None
           THEN /\ report' = None
                /\ call' = "compare"
                /\ ret' = None
                /\ pc' = "end"
           ELSE /\ report' = generate_report(r.df, price_change_threshold)
                /\ call' = "report"
                /\ ret' = [comparison |-> r.df,
                           report |-> generate_report(r.df, price_change_threshold)]
                /\ \E printed \in BOOLEAN : pc' = IF printed THEN "end" ELSE "except"
    /\ UNCHANGED <<store, now, one_time, valid_symbols, previous_data, fetched, current_data>>
    /\ UNCHANGED statusvars

\* mutant: the end of the body sleeps and loops whatever one_time says
MainEnd_Continues ==
    /\ pc = "end"
    /\ now + 1 < StartTime + MaxCycles
    /\ now' = now + 1
    /\ pc' = "top"
    /\ UNCHANGED <<apivars, one_time, valid_symbols, previous_data, fetched,
                   current_data, comparison_data, report>>
    /\ UNCHANGED statusvars

\* lines 268-273: break when one_time, else sleep five minutes and loop
MainEnd ==
    /\ pc = "end"
    /\ IF one_time
       THEN pc' = "done" /\ now' = now
       ELSE /\ now + 1 < StartTime + MaxCycles
            /\ now' = now + 1
            /\ pc' = "top"
    /\ UNCHANGED <<apivars, one_time, valid_symbols, previous_data, fetched,
                   current_data, comparison_data, report>>
    /\ UNCHANGED statusvars

\* mutant: the except clause ends the loop in continuous mode too
MainExcept_Break ==
    /\ pc = "except"
    /\ pc' = "done"
    /\ now' = now
    /\ UNCHANGED <<apivars, one_time, valid_symbols, previous_data, fetched,
                   current_data, comparison_data, report>>
    /\ UNCHANGED statusvars

\* lines 275-279: the except clause of the loop: break when one_time, else
\* sleep one minute and loop
MainExcept ==
    /\ pc = "except"
    /\ IF one_time
       THEN pc' = "done" /\ now' = now
       ELSE /\ now + 1 < StartTime + MaxCycles
            /\ now' = now + 1
            /\ pc' = "top"
    /\ UNCHANGED <<apivars, one_time, valid_symbols, previous_data, fetched,
                   current_data, comparison_data, report>>
    /\ UNCHANGED statusvars

NextMain ==
    \/ SaveEarlier
    \/ MainStart
    \/ MainGetPrevious
    \/ MainFetch
    \/ MainSave
    \/ MainCompare
    \/ MainEnd
    \/ MainExcept

SpecMain == Init /\ [][NextMain]_vars

\* the statements of the loop body run one after the other and each of them
\* returns, the two sleeps included
NextLoop ==
    \/ MainGetPrevious
    \/ MainFetch
    \/ MainSave
    \/ MainCompare
    \/ MainEnd
    \/ MainExcept

SpecMainFair == SpecMain /\ WF_vars(NextLoop)

(***************************************************************************)
(* get_stock_status: the readings of the two clients, aggregated per       *)
(* symbol.  A value of a reading is Val(cents) or NoVal (None).            *)
(***************************************************************************)
\* Python truthiness of a price: None and 0 are false
Truthy(x) == x.r = "val" /\ x.v # 0

\* what yfinance may answer: an exception, or an info dict in which
\* currentPrice, previousClose and longName may be missing
YahooAnswers ==
    {Raise} \cup
    {[r |-> "info", currentPrice |-> p, previousClose |-> c, longName |-> n] :
        p \in {NoVal, Val(0), Val(10000)}, c \in {NoVal, Val(10000)},
        n \in {NoVal, Val("Acme Corp")}}

\* what Alpha Vantage may answer: an exception, an empty quote, a quote
AlphaAnswers ==
    {Raise, [r |-> "empty"]} \cup
    {[r |-> "quote", price |-> p, prev_close |-> 10000] : p \in {10001, 10500}}

\* mutant: the client lets the exception of yfinance out
YahooFinanceClient_Unguarded(answer) ==
    IF answer.r = "raise" THEN Raise
    ELSE [ k |-> "dict", price |-> answer.currentPrice,
           prev_close |-> answer.previousClose,
           company_name |-> IF answer.longName = NoVal THEN "N/A" ELSE answer.longName.v ]

\* YahooFinanceClient.get_stock_data: the dict built with info.get(..., None),
\* None when anything raised
YahooFinanceClient(answer) ==
    IF answer.r = "raise" THEN None
    ELSE [ k |-> "dict", price |-> answer.currentPrice,
           prev_close |-> answer.previousClose,
           company_name |-> IF answer.longName = NoVal THEN "N/A" ELSE answer.longName.v ]

\* AlphaVantageClient.get_stock_data: the dict of a non-empty quote, None
\* when the quote is empty or anything raised
AlphaVantageClient(symbol, answer) ==
    IF answer.r = "quote"
    THEN [ k |-> "dict", price |-> Val(answer.price),
           prev_close |-> Val(answer.prev_close), company_name |-> symbol ]
    ELSE None

\* `if data:` of a client's return value: a dict with keys is true
IsData(data) == data.k = "dict"

RECURSIVE SumSeq(_)
SumSeq(q) == IF q = <<>> THEN 0 ELSE Head(q) + SumSeq(Tail(q))

\* the values of one key of the data sources that pass `if data and data[key]`
TruthyValues(data_sources, key) ==
    LET kept == SelectSeq(data_sources, LAMBDA d : Truthy(d[key]))
    IN  [i \in 1..Len(kept) |-> kept[i][key].v]

\* an average sum / n, kept exact
Mean(q) == [r |-> "val", sum |-> SumSeq(q), n |-> Len(q)]

\* mutant: the first price and the first previous close instead of the means
calculate_average_price_First(data_sources) ==
    LET prices == TruthyValues(data_sources, "price")
        prev_closes == TruthyValues(data_sources, "prev_close")
    IN  IF prices = <<>> \/ prev_closes = <<>>
        THEN [avg_price |-> NoVal, avg_prev_close |-> NoVal]
        ELSE [avg_price |-> Mean(<<prices[1]>>), avg_prev_close |-> Mean(<<prev_closes[1]>>)]

\* calculate_average_price: (None, None) when either list is empty
calculate_average_price(data_sources) ==
    LET prices == TruthyValues(data_sources, "price")
        prev_closes == TruthyValues(data_sources, "prev_close")
    IN  IF prices = <<>> \/ prev_closes = <<>>
        THEN [avg_price |-> NoVal, avg_prev_close |-> NoVal]
        ELSE [avg_price |-> Mean(prices), avg_prev_close |-> Mean(prev_closes)]

\* f"{x:.2f}" of the exact value num / den (den > 0), as hundredths: the
\* nearest one, either neighbour when the binary float is a decimal tie
Format2f(num, den) ==
    {q \in ((num \div den) - 1)..((num \div den) + 1) :
        2 * (den * q - num) <= den /\ 2 * (num - den * q) <= den}

\* calculate_daily_change of the two averages, as the exact fraction of
\* hundredths of a percent; None when a price is missing
AverageDailyChange(avg) ==
    IF avg.avg_price = NoVal \/ avg.avg_prev_close = NoVal
    THEN NoVal
    ELSE [ r |-> "val",
           sum |-> (avg.avg_price.sum * avg.avg_prev_close.n
                        - avg.avg_prev_close.sum * avg.avg_price.n) * 10000,
           n |-> avg.avg_prev_close.sum * avg.avg_price.n ]

\* f"${x:.2f}" if x else 'N/A', and f"{x:.2f}%" if x is not None else 'N/A'
DollarCells(x) == IF x = NoVal THEN {Text} ELSE {Dollar(q) : q \in Format2f(x.sum, x.n)}
PercentCells(x) == IF x = NoVal THEN {Text} ELSE {Percent(q) : q \in Format2f(x.sum, x.n)}

\* next((data['company_name'] for data in data_sources if ... != 'N/A'), 'N/A')
CompanyName(data_sources) ==
    LET named == SelectSeq(data_sources, LAMBDA d : d.company_name # "N/A")
    IN  IF named = <<>> THEN "N/A" ELSE named[1].company_name

\* ' + '.join(source_names) if source_names else 'N/A'
RECURSIVE Join(_)
Join(source_names) ==
    IF source_names = <<>> THEN "N/A"
    ELSE IF Len(source_names) = 1 THEN source_names[1]
    ELSE source_names[1] \o " + " \o Join(Tail(source_names))

\* the row the except clause of the loop appends
ErrorRow(symbol) ==
    [ Symbol |-> symbol, Company |-> "Error",
      Current_Price |-> Text, Previous_Close |-> Text,
      Daily_Change |-> Text, Sources |-> "Error" ]

\* the rows lines 145-176 may append for a symbol, given what the clients
\* returned for it in query order, with the names of the clients
AggregatedRows(symbol, data_sources, source_names) ==
    IF data_sources = <<>> THEN {NARow(symbol)}
    ELSE LET avg == calculate_average_price(data_sources)
         IN  {[ Symbol |-> symbol, Company |-> CompanyName(data_sources),
                Current_Price |-> p, Previous_Close |-> c, Daily_Change |-> d,
                Sources |-> Join(source_names) ] :
                    p \in DollarCells(avg.avg_price),
                    c \in DollarCells(avg.avg_prev_close),
                    d \in PercentCells(AverageDailyChange(avg))}

\* one turn of the loop of get_stock_status (lines 126-192) over what the two
\* clients returned; alpha_data is None when there is no Alpha Vantage client
ProcessSymbol(symbol, yahoo_data, alpha_data) ==
    IF yahoo_data = Raise \/ alpha_data = Raise THEN {ErrorRow(symbol)}
    ELSE LET y == IF IsData(yahoo_data) THEN <<yahoo_data>> ELSE <<>>
             a == IF IsData(alpha_data) THEN <<alpha_data>> ELSE <<>>
             yn == IF IsData(yahoo_data) THEN <<"Yahoo Finance">> ELSE <<>>
             an == IF IsData(alpha_data) THEN <<"Alpha Vantage">> ELSE <<>>
         IN  AggregatedRows(symbol, y \o a, yn \o an)

\* get_stock_status(symbols, alpha_vantage_key) is called
StatusCall ==
    /\ pc = "start"
    /\ symbols' \in SymbolLists
    /\ alpha_vantage_key' \in BOOLEAN
    /\ readings' = <<>>
    /\ results' = <<>>
    /\ pc' = "status"
    /\ UNCHANGED <<apivars, now, one_time, valid_symbols, previous_data, fetched,
                   current_data, comparison_data, report>>

\* lines 125-192: the next symbol is processed
StatusSymbol ==
    /\ pc = "status"
    /\ Len(results) < Len(symbols)
    /\ LET symbol == symbols[Len(results) + 1]
       IN  \E y \in YahooAnswers :
           \E a \in IF alpha_vantage_key THEN AlphaAnswers ELSE {[r |-> "absent"]} :
             LET yahoo_data == YahooFinanceClient(y)
                 alpha_data == IF alpha_vantage_key THEN AlphaVantageClient(symbol, a) ELSE None
             IN  /\ readings' = Append(readings, [yahoo |-> y, alpha |-> a,
                                                  yahoo_data |-> yahoo_data,
                                                  alpha_data |-> alpha_data])
                 /\ \E row \in ProcessSymbol(symbol, yahoo_data, alpha_data) :
                        results' = Append(results, row)
    /\ UNCHANGED <<apivars, pc, now, one_time, valid_symbols, previous_data, fetched,
                   current_data, comparison_data, report, symbols, alpha_vantage_key>>

\* lines 194-198: pd.DataFrame(results), or the empty frame, is returned
StatusReturn ==
    /\ pc = "status"
    /\ Len(results) = Len(symbols)
    /\ pc' = "returned"
    /\ UNCHANGED <<apivars, now, one_time, valid_symbols, previous_data, fetched,
                   current_data, comparison_data, report, statusvars>>

NextStatus ==
    \/ StatusCall
    \/ StatusSymbol
    \/ StatusReturn

SpecStatus == Init /\ [][NextStatus]_vars

(***************************************************************************)
(* The claims.                                                             *)
(***************************************************************************)

\* the price main fetched for a symbol in this cycle, as a set (empty when
\* the fetch gave None or the symbol was not asked for)
FetchedPrices(symbol) ==
    {fetched[i].df[1].Current_Price.num :
        i \in {j \in DOMAIN fetched : fetched[j] # None /\ valid_symbols[j] = symbol}}

\* the price the store held for a symbol when the cycle began
PriorPrices(symbol) ==
    IF previous_data = None THEN {}
    ELSE {previous_data.df[i].Current_Price.num :
            i \in {j \in DOMAIN previous_data.df : previous_data.df[j].Symbol = symbol}}

\* C1: in a cycle of main that compared, a symbol whose price fetched in this
\* cycle differs from the price the prior cycle stored for it gets a record
\* whose previous price is that prior price and whose price change is not
\* zero.
ComparesFetchedWithPriorCycle ==
    (pc \in {"end", "except"} /\ comparison_data # None) =>
        \A i \in DOMAIN comparison_data.df :
            LET rec == comparison_data.df[i]
            IN  \A f \in FetchedPrices(rec.row.Symbol), q \in PriorPrices(rec.row.Symbol) :
                    f # q =>
                        /\ rec.cmp.Previous_Price = Dollar(q)
                        /\ rec.cmp.Price_Change # None
                        /\ rec.cmp.Price_Change # Dollar(0)

\* C1, what the code does instead: every record main's compare fills has a
\* price change of $0.00, whatever was fetched.
MainPriceChangeAlwaysZero ==
    (pc \in {"end", "except"} /\ comparison_data # None) =>
        \A i \in DOMAIN comparison_data.df :
            comparison_data.df[i].cmp.Price_Change \in {None, Dollar(0)}

\* C2: when the save of a cycle of main has gone through without an error,
\* the table holds, for every symbol whose fetch succeeded in this cycle, a
\* row of this cycle's timestamp with the fetched price.
CycleAppendsFetchedRows ==
    (pc \in {"compare", "end"} /\ call = "save" /\ ret.error = "none") =>
        \A i \in DOMAIN fetched :
            fetched[i] # None =>
                \E r \in store :
                    /\ r.timestamp = now
                    /\ r.symbol = valid_symbols[i]
                    /\ r.current_price = fetched[i].df[1].Current_Price.num

\* C2, what the code does instead: the rows a cycle appends are the latest
\* rows of the table under this cycle's timestamp, prices unchanged.
CycleAppendsCopyOfLatest ==
    (pc \in {"compare", "end"} /\ call = "save" /\ ret.error = "none") =>
        {r \in store : r.timestamp = now} =
            {SnapshotRow(current_data.df[i], now) : i \in DOMAIN current_data.df}

\* C3: after any sequence of saves, with any timestamps, what latest()
\* returns is exactly the stored rows whose timestamp is the maximum one in
\* the table: every returned row is a stored row that no stored row is newer
\* than, every stored row with the maximum timestamp is returned, and none
\* is returned twice.
LatestIsExactlyMaxTimestamp ==
    (call = "latest" /\ ret # None) =>
        /\ \A i \in DOMAIN ret.df :
              \E r \in store :
                  /\ ret.df[i] = LatestRow(r)
                  /\ \A q \in store : q.timestamp <= r.timestamp
        /\ \A r \in store :
              (\A q \in store : q.timestamp <= r.timestamp)
                  => \E i \in DOMAIN ret.df : ret.df[i] = LatestRow(r)
        /\ \A i, j \in DOMAIN ret.df : i # j => ret.df[i] # ret.df[j]

\* C3 witness: latest() has returned rows while the table also holds an
\* older row
LatestWithOlderRowStored ==
    /\ call = "latest" /\ ret # None
    /\ Len(ret.df) > 0
    /\ \E r \in store : r.timestamp < ret.df[1].timestamp

\* C4: a save that hits a storage failure (the storage unavailable, or the
\* INSERT rejected) raises to its caller.
SaveFailurePropagates ==
    (call = "save" /\ ret.error \in {"unavailable", "constraint"}) => ret.raised

\* C5: when a batch has malformed and well-formed rows, and the store can
\* take the well-formed ones, all well-formed rows are appended.
WellFormedRowsOfMixedBatchSaved ==
    (call = "save" /\ ret.malformed > 0 /\ ret.wellformed > 0 /\ ret.insertable)
        => ret.inserted = ret.wellformed

\* C6: no two stored rows have the same (timestamp, symbol) pair.
PrimaryKeyUnique ==
    \A r, q \in store : Key(r) = Key(q) => r = q

\* C6 witness: a save that would have introduced a duplicate pair was made,
\* on a table that holds rows
DuplicateSaveAttempted ==
    call = "save" /\ ret.error = "constraint" /\ store # {}

\* C7: the table is append-only: a step keeps every stored row as it is, and
\* only a save adds rows.
AppendOnly ==
    [][store \subseteq store' /\ (store' # store => call' = "save")]_vars

\* C7 witness: report ran over a comparison while the table was full
ReportOverFullStore ==
    call = "report" /\ Cardinality(store) = MaxRows

RowsOn(st, date, s) == {r \in st : Date(r.timestamp) = date /\ r.symbol = s}

\* the rollup the claim describes for the rows R of one date and symbol
Rollup(R) ==
    [ opening |-> (CHOOSE r \in R : \A q \in R : r.timestamp <= q.timestamp).current_price,
      closing |-> (CHOOSE r \in R : \A q \in R : r.timestamp >= q.timestamp).current_price,
      high |-> Max({r.current_price : r \in R}),
      low |-> Min({r.current_price : r \in R}),
      sum |-> Sum(R, "current_price"),
      n |-> Cardinality(R) ]

SummaryRowIsRollup(row, R) ==
    /\ row.Opening_Price = Dollar(Rollup(R).opening)
    /\ row.Closing_Price = Dollar(Rollup(R).closing)
    /\ row.High_Price = Dollar(Rollup(R).high)
    /\ row.Low_Price = Dollar(Rollup(R).low)
    /\ row.Average_Price.sum * Rollup(R).n = Rollup(R).sum * row.Average_Price.n

\* C10: for every symbol with a stored row on the date asked for,
\* daily_summary reports that symbol, and what it reports for it is the
\* opening, closing, high, low and average over all rows of that date and
\* symbol.
DailySummaryIsRollupOfDateAndSymbol ==
    (call = "summary" /\ ret # None) =>
        \A s \in Symbols :
            RowsOn(store, ret.date, s) # {} =>
                /\ \E i \in DOMAIN ret.df : ret.df[i].Symbol = s
                /\ \A i \in DOMAIN ret.df :
                      ret.df[i].Symbol = s
                          => SummaryRowIsRollup(ret.df[i], RowsOn(store, ret.date, s))

\* C10, where it does hold: the same, for the symbols whose rows of that date
\* all carry the same company and sources
DailySummaryIsRollupOfUniformRows ==
    (call = "summary" /\ ret # None) =>
        \A s \in Symbols :
            LET R == RowsOn(store, ret.date, s)
            IN  (R # {} /\ \A r, q \in R : r.company = q.company /\ r.sources = q.sources)
                => /\ \E i \in DOMAIN ret.df : ret.df[i].Symbol = s
                   /\ \A i \in DOMAIN ret.df :
                         ret.df[i].Symbol = s => SummaryRowIsRollup(ret.df[i], R)

\* C10, the example: captures 100, 105, 98 of one date in time order and the
\* summary of that date
ThreeCapturesSummarised ==
    /\ call = "summary" /\ ret # None /\ Len(ret.df) = 1
    /\ \E a, b, c \in store :
          /\ a.timestamp < b.timestamp /\ b.timestamp < c.timestamp
          /\ Date(a.timestamp) = ret.date /\ Date(c.timestamp) = ret.date
          /\ a.current_price = 10000 /\ b.current_price = 10500 /\ c.current_price = 9800
    /\ ret.df[1].Opening_Price = Dollar(10000)
    /\ ret.df[1].Closing_Price = Dollar(9800)
    /\ ret.df[1].High_Price = Dollar(10500)
    /\ ret.df[1].Low_Price = Dollar(9800)
    /\ ret.df[1].Average_Price = DollarMean(30300, 3)

\* a record with a current and a previous price, both numeric strings, whose
\* percentage change is defined
HasBothPrices(rec) ==
    /\ rec.row.Current_Price.k = "str"
    /\ rec.cmp.Previous_Price.k = "str"
    /\ rec.cmp.Previous_Price.num # 0

\* the significant-change alerts of a result for one symbol
PriceAlertsFor(alerts, s) ==
    IF alerts = None THEN <<>>
    ELSE SelectSeq(alerts.significant_changes, LAMBDA a : a.symbol = s)

\* what the claim says of one record: an alert if and only if the
\* percentage reaches the threshold, with the percentage and its direction
AlertIffThreshold(alerts, rec) ==
    LET cur == rec.row.Current_Price.num
        prev == rec.cmp.Previous_Price.num
        found == PriceAlertsFor(alerts, rec.row.Symbol)
    IN  /\ Len(found) = (IF Abs(cur - prev) * 100 >= price_change_threshold * Abs(prev)
                         THEN 1 ELSE 0)
        /\ \A i \in DOMAIN found :
              /\ found[i].change_num = (cur - prev) * 100
              /\ found[i].change_den = prev
              /\ found[i].direction = (IF (cur - prev) * prev > 0 THEN "increase" ELSE "decrease")

\* C8: analyze emits a significant-change alert for a record with both
\* prices if and only if the percentage change reaches the threshold.
SignificantAlertIffThreshold ==
    call = "analyze" =>
        \A i \in DOMAIN ret.comparison :
            HasBothPrices(ret.comparison[i]) => AlertIffThreshold(ret.alerts, ret.comparison[i])

\* C8, where it does hold: the same, for the calls in which analyze returned
\* its alerts
SignificantAlertIffThresholdWhenReturned ==
    (call = "analyze" /\ ret.alerts # None) =>
        \A i \in DOMAIN ret.comparison :
            HasBothPrices(ret.comparison[i]) => AlertIffThreshold(ret.alerts, ret.comparison[i])

\* C8, the examples: previous 100.00 and current 106.00 give one alert of
\* 6 percent, increase; previous 100.00 and current 104.00 give none
ExampleSixPercent ==
    /\ call = "analyze" /\ ret.alerts # None /\ Len(ret.comparison) = 1
    /\ ret.comparison[1].cmp.Previous_Price = Dollar(10000)
    /\ ret.comparison[1].row.Current_Price = Dollar(10600)
    /\ Len(ret.alerts.significant_changes) = 1
    /\ ret.alerts.significant_changes[1].change_num = 6 * ret.alerts.significant_changes[1].change_den
    /\ ret.alerts.significant_changes[1].direction = "increase"

ExampleFourPercent ==
    /\ call = "analyze" /\ ret.alerts # None /\ Len(ret.comparison) = 1
    /\ ret.comparison[1].cmp.Previous_Price = Dollar(10000)
    /\ ret.comparison[1].row.Current_Price = Dollar(10400)
    /\ Len(ret.alerts.significant_changes) = 0

\* C9: report returns the fixed "No significant changes detected." text
\* whenever analyze yields no alert, for an empty record list and for records
\* none of which reaches the threshold.
NoAlertsGivesSentinel ==
    call = "report" =>
        LET alerts == analyze_price_changes(ret.comparison, price_change_threshold)
        IN  (alerts # None /\ alerts.significant_changes = <<>>
                /\ alerts.daily_change_alerts = <<>>)
            => ret.report = NoChangesReport

\* C9, what the code does instead: the fixed text is returned exactly when
\* analyze returned None
SentinelIffAnalyzeFailed ==
    call = "report" =>
        (ret.report = NoChangesReport
            <=> analyze_price_changes(ret.comparison, price_change_threshold) = None)

\* the dicts the clients returned for the i-th symbol, in query order
DataSources(i) ==
    (IF IsData(readings[i].yahoo_data) THEN <<readings[i].yahoo_data>> ELSE <<>>)
        \o (IF IsData(readings[i].alpha_data) THEN <<readings[i].alpha_data>> ELSE <<>>)

\* the non-null values of one key of the i-th symbol's readings
NonNullValues(i, key) ==
    LET kept == SelectSeq(DataSources(i), LAMBDA d : d[key].r = "val")
    IN  [j \in 1..Len(kept) |-> kept[j][key].v]

\* the cell is the price string of the mean of the values q, to the cent
IsMeanOf(cell, q) ==
    /\ cell.k = "str"
    /\ cell.pre = "$"
    /\ 2 * (Len(q) * cell.num - SumSeq(q)) <= Len(q)
    /\ 2 * (SumSeq(q) - Len(q) * cell.num) <= Len(q)

\* C11: for every symbol with a reading that carries a non-null price, the
\* row's current_price is the mean of exactly the non-null prices, and its
\* previous_close the mean of exactly the non-null previous closes.
MeanOfNonNullPrices ==
    \A i \in DOMAIN results :
        NonNullValues(i, "price") # <<>> =>
            /\ IsMeanOf(results[i].Current_Price, NonNullValues(i, "price"))
            /\ NonNullValues(i, "prev_close") # <<>> =>
                   IsMeanOf(results[i].Previous_Close, NonNullValues(i, "prev_close"))

\* C11, amended: for every symbol with a reading that carries a non-null,
\* non-zero price and a reading that carries a non-null, non-zero previous
\* close, the row's current_price is the mean of exactly the non-null,
\* non-zero prices, to the cent, and its previous_close the mean of exactly
\* the non-null, non-zero previous closes, whatever the other readings hold.
MeanOfContributingPrices ==
    \A i \in DOMAIN results :
        (/\ TruthyValues(DataSources(i), "price") # <<>>
         /\ TruthyValues(DataSources(i), "prev_close") # <<>>) =>
            /\ IsMeanOf(results[i].Current_Price, TruthyValues(DataSources(i), "price"))
            /\ IsMeanOf(results[i].Previous_Close, TruthyValues(DataSources(i), "prev_close"))

\* C11 witness: a frame was returned in which a row averages the prices of
\* two sources, and one in which a source without a price is left out of
\* the mean of the prices but not of the mean of the previous closes
TwoSourcesAveraged ==
    /\ pc = "returned"
    /\ \E i \in DOMAIN results :
        /\ NonNullValues(i, "price") = <<10000, 10500>>
        /\ results[i].Current_Price = Dollar(10250)
    /\ \E i \in DOMAIN results :
        /\ NonNullValues(i, "price") = <<10500>>
        /\ NonNullValues(i, "prev_close") = <<10000, 10000>>
        /\ results[i].Current_Price = Dollar(10500)

\* C12: a source whose fetch raised or gave nothing is left out of the
\* symbol's aggregation while the reading of the other source is aggregated
\* (the row carries that source's price and names that source alone), and
\* get_stock_status still produces a row for every symbol of the batch.
SourceFailureIsolated ==
    /\ pc = "returned" => Len(results) = Len(symbols)
    /\ \A i \in DOMAIN results :
        /\ results[i].Symbol = symbols[i]
        /\ (readings[i].yahoo.r = "raise" /\ readings[i].alpha.r = "quote") =>
              /\ IsMeanOf(results[i].Current_Price, <<readings[i].alpha.price>>)
              /\ IsMeanOf(results[i].Previous_Close, <<readings[i].alpha.prev_close>>)
              /\ results[i].Sources = "Alpha Vantage"
        /\ (/\ readings[i].alpha.r \in {"raise", "empty"}
            /\ readings[i].yahoo.r = "info"
            /\ Truthy(readings[i].yahoo.currentPrice)
            /\ Truthy(readings[i].yahoo.previousClose)) =>
              /\ IsMeanOf(results[i].Current_Price, <<readings[i].yahoo.currentPrice.v>>)
              /\ IsMeanOf(results[i].Previous_Close, <<readings[i].yahoo.previousClose.v>>)
              /\ results[i].Sources = "Yahoo Finance"

\* C12 witness: a frame of two rows was returned in which Yahoo raised for
\* the first symbol while Alpha Vantage answered, and the second symbol was
\* aggregated after it
LaterSymbolAfterFailedSource ==
    /\ pc = "returned"
    /\ Len(results) = 2
    /\ readings[1].yahoo.r = "raise"
    /\ readings[1].alpha.r = "quote"
    /\ results[1].Sources = "Alpha Vantage"
    /\ results[2].Current_Price.k = "str"

\* a price cell and a percentage cell that convert to a number, and ones
\* whose conversion fails
PriceConverts(c) == c.k = "float" \/ (c.k = "str" /\ c.suf = "")
PercentConverts(c) == c.k = "float" \/ (c.k = "str" /\ c.pre = "")
ConversionFails(c) == c.k = "text"

\* what compare owes one record, whatever the other records of the call
\* are: its four fields computed from a stored latest row of its symbol when
\* its cells convert, and left undefined when a conversion fails
ComparedAlone(rec) ==
    LET prev == {r \in LatestRows(store) : r.symbol = rec.row.Symbol}
        cur == rec.row.Current_Price
        chg == rec.row.Daily_Change
    IN  /\ (prev # {} /\ PriceConverts(cur) /\ PercentConverts(chg)) =>
              \E r \in prev :
                  rec.cmp = [ Previous_Price |-> Dollar(r.current_price),
                              Price_Change |-> Dollar(cur.num - r.current_price),
                              Previous_Daily_Change |-> Percent(r.daily_change),
                              Change_in_Daily_Change |-> Percent(chg.num - r.daily_change) ]
        /\ (ConversionFails(cur) \/ ConversionFails(chg)) => rec.cmp = Undefined

\* C13: in compare_with_previous a conversion failure of one symbol leaves
\* only that symbol's comparison fields undefined: every record of a
\* returned comparison has its fields computed when its own cells convert,
\* and with the storage readable the call returns the list for every frame.
ConversionFailureIsolated ==
    /\ (call = "compare" /\ ret # None) =>
          \A i \in DOMAIN ret.df : ComparedAlone(ret.df[i])
    /\ call \in {"init", "save"} =>
          \A current_df \in CurrentFrames :
              None \notin compare_with_previous(store, current_df, TRUE)

\* C13 witness: a returned comparison in which the first record has an
\* unparseable price and no comparison fields, and the second record has
\* its fields
SecondComparedAfterFailedFirst ==
    /\ call = "compare" /\ ret # None /\ Len(ret.df) = 2
    /\ ret.df[1].row.Current_Price = Text
    /\ ret.df[1].cmp = Undefined
    /\ \E r \in LatestRows(store) : r.symbol = ret.df[1].row.Symbol
    /\ ret.df[2].cmp.Price_Change = Dollar(600)

\* a record that passes the missing-value test of analyze but cannot be
\* evaluated: a current price that is a number, not a string, or a previous
\* price of 0.00
CannotBeEvaluated(rec) ==
    /\ ~IsNa(rec.cmp.Previous_Price)
    /\ ~IsNa(rec.row.Current_Price)
    /\ \/ rec.row.Current_Price.k = "float"
       \/ rec.cmp.Previous_Price = Dollar(0)

\* a record analyze can evaluate: two price strings, the previous not 0.00
CanBeEvaluated(rec) ==
    /\ rec.row.Current_Price.k = "str"
    /\ rec.cmp.Previous_Price.k = "str"
    /\ rec.cmp.Previous_Price.num # 0

\* the daily-change alerts of a result for one symbol
DailyAlertsFor(alerts, s) ==
    IF alerts = None THEN <<>>
    ELSE SelectSeq(alerts.daily_change_alerts, LAMBDA a : a.symbol = s)

\* what the claim says of one record with a change in daily change: an
\* alert if and only if its magnitude reaches the threshold
DailyAlertIff(alerts, rec) ==
    LET diff == rec.cmp.Change_in_Daily_Change.num
        found == DailyAlertsFor(alerts, rec.row.Symbol)
    IN  /\ Len(found) = (IF Abs(diff) >= price_change_threshold * 100 THEN 1 ELSE 0)
        /\ \A i \in DOMAIN found : found[i].change_diff = diff

\* C14: in a call of analyze with a record that cannot be evaluated, the
\* alerts and summary counts of the other records are still produced: a
\* result is returned, it counts every record, and every record that can be
\* evaluated has its price alert and its daily-change alert.
UnevaluableRecordHandledLocally ==
    (call = "analyze" /\ \E i \in DOMAIN ret.comparison : CannotBeEvaluated(ret.comparison[i])) =>
        /\ ret.alerts # None
        /\ ret.alerts.summary.total_symbols = Len(ret.comparison)
        /\ \A j \in DOMAIN ret.comparison :
              CanBeEvaluated(ret.comparison[j]) =>
                  /\ AlertIffThreshold(ret.alerts, ret.comparison[j])
                  /\ DailyAlertIff(ret.alerts, ret.comparison[j])

\* C14, what the code does instead: analyze returns None exactly when some
\* record of the call cannot be evaluated.
UnevaluableRecordAbortsCall ==
    call = "analyze" =>
        (ret.alerts = None
            <=> \E i \in DOMAIN ret.comparison : CannotBeEvaluated(ret.comparison[i]))

\* C15: analyze emits a daily-change alert for a record if and only if the
\* magnitude of its change in daily change reaches the threshold, whether or
\* not it emits a price alert for that record.
DailyAlertIffThreshold ==
    call = "analyze" =>
        \A i \in DOMAIN ret.comparison :
            ret.comparison[i].cmp.Change_in_Daily_Change.k = "str" =>
                DailyAlertIff(ret.alerts, ret.comparison[i])

\* C15, where it does hold: the same, for the calls in which analyze returned
\* its alerts
DailyAlertIffThresholdWhenReturned ==
    (call = "analyze" /\ ret.alerts # None) =>
        \A i \in DOMAIN ret.comparison :
            ret.comparison[i].cmp.Change_in_Daily_Change.k = "str" =>
                DailyAlertIff(ret.alerts, ret.comparison[i])

\* C15, the two alerts without each other: a result with a daily-change alert
\* at exactly the threshold and no price alert, and one with a price alert and
\* no daily-change alert
DailyAlertWithoutPriceAlert ==
    /\ call = "analyze" /\ ret.alerts # None
    /\ Len(ret.alerts.daily_change_alerts) = 1
    /\ ret.alerts.daily_change_alerts[1].change_diff = 500
    /\ ret.alerts.significant_changes = <<>>

PriceAlertWithoutDailyAlert ==
    /\ call = "analyze" /\ ret.alerts # None
    /\ Len(ret.alerts.significant_changes) = 1
    /\ ret.alerts.daily_change_alerts = <<>>

\* the price alerts of a result with one direction
WithDirection(alerts, d) == SelectSeq(alerts.significant_changes, LAMBDA a : a.direction = d)

\* C16: in every result of analyze, summary.significant_changes is the number
\* of price alerts and the sum of positive_changes and negative_changes,
\* positive_changes counts the price alerts with direction increase and
\* negative_changes those with direction decrease, daily-change alerts count
\* in none of them, and total_symbols is the number of input records.
SummaryCountsConsistent ==
    (call = "analyze" /\ ret.alerts # None) =>
        LET summary == ret.alerts.summary
        IN  /\ summary.significant_changes = Len(ret.alerts.significant_changes)
            /\ summary.significant_changes = summary.positive_changes + summary.negative_changes
            /\ summary.positive_changes = Len(WithDirection(ret.alerts, "increase"))
            /\ summary.negative_changes = Len(WithDirection(ret.alerts, "decrease"))
            /\ summary.total_symbols = Len(ret.comparison)

\* C16 witness: a result over two records with one increase, one decrease
\* and a daily-change alert beside them
IncreaseDecreaseAndDailyAlert ==
    /\ call = "analyze" /\ ret.alerts # None
    /\ Len(ret.comparison) = 2
    /\ Len(WithDirection(ret.alerts, "increase")) = 1
    /\ Len(WithDirection(ret.alerts, "decrease")) = 1
    /\ Len(ret.alerts.daily_change_alerts) >= 1
    /\ ret.alerts.summary.significant_changes = 2

\* C17: a symbol whose readings hold no non-null price, or no non-null
\* previous close, is skipped: the result has no row for it.
SymbolWithoutPricesSkipped ==
    \A i \in DOMAIN results :
        (NonNullValues(i, "price") = <<>> \/ NonNullValues(i, "prev_close") = <<>>) =>
            \A j \in DOMAIN results : results[j].Symbol # symbols[i]

\* C17, what the code does instead: the symbol gets a row whose price cells
\* are 'N/A'.
SymbolWithoutPricesGetsNARow ==
    \A i \in DOMAIN results :
        (NonNullValues(i, "price") = <<>> \/ NonNullValues(i, "prev_close") = <<>>) =>
            /\ results[i].Symbol = symbols[i]
            /\ results[i].Current_Price = Text
            /\ results[i].Previous_Close = Text
            /\ results[i].Daily_Change = Text

\* a client's return value that supplies a price or a previous close
Supplies(data) ==
    IsData(data) /\ (data.price.r = "val" \/ data.prev_close.r = "val")

\* the names, in query order, of the sources of the i-th symbol that
\* supplied a value, and of those whose client returned a dict
ContributorNames(i) ==
    (IF Supplies(readings[i].yahoo_data) THEN <<"Yahoo Finance">> ELSE <<>>)
        \o (IF Supplies(readings[i].alpha_data) THEN <<"Alpha Vantage">> ELSE <<>>)

AnsweringNames(i) ==
    (IF IsData(readings[i].yahoo_data) THEN <<"Yahoo Finance">> ELSE <<>>)
        \o (IF IsData(readings[i].alpha_data) THEN <<"Alpha Vantage">> ELSE <<>>)

\* C18: the sources value of a row lists, in query order, exactly the
\* sources that supplied a price or a previous close for the symbol.
SourcesAreContributors ==
    \A i \in DOMAIN results :
        ContributorNames(i) # <<>> =>
            results[i].Sources = Join(ContributorNames(i))

\* C18, what the code does instead: the row lists the sources whose client
\* returned a dict, with or without values in it.
SourcesAreAnswering ==
    \A i \in DOMAIN results : results[i].Sources = Join(AnsweringNames(i))

\* a cycle of main in which something failed: the except clause of the loop
\* was entered, the save logged an error, or a read of the storage gave None
CycleFailed ==
    \/ pc = "except"
    \/ pc \in {"compare", "end"} /\ call = "save" /\ ret.error # "none"
    \/ pc = "end" /\ current_data = None
    \/ pc = "end" /\ previous_data # None /\ current_data # None /\ comparison_data = None

LatestIsNoneOnEmptyStore ==
    (call = "latest" /\ store = {}) => ret = None

\* C20, what the code does instead: with the storage readable, the read of an
\* empty table returns a frame without rows.
LatestIsEmptyFrameOnEmptyStore ==
    (call = "latest" /\ store = {} /\ ret # None) => ret.df = <<>>

\* C20, the caller: main has saved the frame without rows it read from an
\* empty table, and the cycle went on
MainSavedOnEmptyStore ==
    /\ pc = "end"
    /\ store = {}
    /\ call = "save"
    /\ current_data # None
    /\ current_data.df = <<>>
    /\ ret.error = "none"


(* C21: in every frame compare_with_previous returns, each row has its four *)
(* comparison fields all undefined or all defined; they are all undefined   *)
(* when the latest rows of the store hold no row of the row's symbol; and   *)
(* when they are defined, Price Change is the current price minus the       *)
(* previous price and Change in Daily Change is the current daily change    *)
(* minus the previous one (a NaN operand giving a NaN difference).          *)
ComparisonFields(rec) ==
    { rec.cmp.Previous_Price, rec.cmp.Price_Change,
      rec.cmp.Previous_Daily_Change, rec.cmp.Change_in_Daily_Change }

FieldsDefined(rec) == \A f \in ComparisonFields(rec) : f # None

\* the number a field or a cell of the current row stands for
NumberOf(c) == IF c.k \in {"nan", "nanstr"} THEN NanVal ELSE Val(c.num)

DifferencesHold(rec) ==
    /\ NumberOf(rec.cmp.Price_Change)
         = Minus(NumberOf(rec.row.Current_Price), NumberOf(rec.cmp.Previous_Price))
    /\ NumberOf(rec.cmp.Change_in_Daily_Change)
         = Minus(NumberOf(rec.row.Daily_Change),
                 NumberOf(rec.cmp.Previous_Daily_Change))

ComparisonFieldsAllOrNone ==
    (call = "compare" /\ ret # None) =>
        \A i \in DOMAIN ret.df :
            LET rec == ret.df[i]
            IN  /\ FieldsDefined(rec) \/ rec.cmp = Undefined
                /\ (\A r \in LatestRows(store) : r.symbol # rec.row.Symbol)
                       => rec.cmp = Undefined
                /\ FieldsDefined(rec) => DifferencesHold(rec)

\* a returned comparison of two rows: one compared with its prior row, its
\* price having moved, and one of a symbol the store holds no row of
ComparedAndUncomparedRow ==
    /\ call = "compare"
    /\ ret # None
    /\ Len(ret.df) = 2
    /\ \E i, j \in DOMAIN ret.df :
          /\ FieldsDefined(ret.df[i])
          /\ ret.df[i].cmp.Price_Change = Dollar(600)
          /\ ret.df[j].cmp = Undefined
          /\ \A r \in LatestRows(store) : r.symbol # ret.df[j].row.Symbol


(* C22: run with one_time and at least one valid symbol, main executes      *)
(* exactly one cycle of the loop and then terminates, whether the cycle     *)
(* reaches its end or raises into the except clause of the loop: the cycle  *)
(* begins when main enters the loop, no step begins another one, the cycle  *)
(* that began is followed by the return of main, and so is the except       *)
(* clause, in the cycle in which it was entered.                            *)
OneTimeRunsExactlyOneCycle ==
    /\ [][(pc = "start" /\ pc' # "start" /\ one_time' /\ valid_symbols' # <<>>)
              => pc' = "top"]_vars
    /\ [][(one_time' /\ pc' = "top") => pc = "start"]_vars
    /\ [][pc' = "start" => pc = "start"]_vars
    /\ [][pc = "done" => pc' = "done"]_vars
    /\ (one_time /\ pc = "top") ~> (pc = "done" /\ now = StartTime)
    /\ (one_time /\ pc = "except") ~> (pc = "done" /\ now = StartTime)

\* main has returned from a one_time run over two symbols whose only cycle
\* fetched both, saved and produced a report
OneTimeRunReturned ==
    /\ pc = "done"
    /\ one_time
    /\ Len(valid_symbols) = 2
    /\ Len(fetched) = 2
    /\ current_data # None
    /\ report # None
    /\ now = StartTime

====
